---------------------------- MODULE Spec2Model ----------------------------
(***************************************************************************)
(* postmarketos-mkinitfs: the atomic archive writer (Archive.Write), the   *)
(* ELF closure resolver (getFiles / getFile / getBinaryDeps), the          *)
(* kernel-module resolver (getModule / getModuleDeps), the archive builder *)
(* (Archive.AddFile / writeCpio / addDir), the pipeline of main and the    *)
(* deviceinfo parser (unmarshal / nameToField), as state machines.         *)
(*                                                                         *)
(* Each part has its own specification over the shared variable list; the  *)
(* variables of the other parts stay at their idle values.                 *)
(***************************************************************************)
EXTENDS Integers, Sequences, FiniteSets, TLC

VARIABLES
  \* ---- Archive.Write (pkgs/archive/archive.go) ----
  wpc,                \* position inside Archive.Write
  writeRet,           \* "running", or what Write returned: "nil", an error, "panic"
  archiveSize,        \* size of the compressed archive (tmpOutFileSize.Size())
  actualFreeSpace,    \* what misc.FreeSpace(targetDir) reports
  target,             \* the file at `path`: [content, mode]
  targetBefore,       \* the file at `path` when Write was called
  tmpOutDir,          \* the staging directory exists
  tmpOutFile,         \* content of the staged file inside tmpOutDir
  extractDir,         \* the extraction subdirectory exists
  tmpTargetFile,      \* content of the temporary file inside targetDir
  tmpFileChecksum,    \* checksum of the staged file (step 2)
  targetFileChecksum, \* checksum of the temporary copy (step 6)
  deferred,           \* deferred calls registered so far, oldest first
  trace,              \* steps of the pipeline completed so far, in order
  \* ---- getFiles / getFile / getBinaryDeps (main.go) ----
  fs,                 \* the file system: path -> node
  cwd,                \* the process working directory
  newFiles,           \* getFiles' newFiles argument
  required,           \* getFiles' required argument
  pending,            \* the members of newFiles the range loop has not reached
  files,              \* the StringSet the resolvers fill: path -> flag
  stack,              \* the getBinaryDeps calls in progress, outermost first
  walks,              \* how many times getBinaryDeps was entered, per path
  lastCall,           \* the last getFile call: its arguments and its outcome
  elfRet,             \* "running", or how getFiles ended
  \* ---- getModule / getModuleDeps (main.go) ----
  modName,            \* getModuleDeps' modName argument
  modulesDep,         \* the lines of modules.dep
  scanFail,           \* the line at which the bufio.Scanner fails, 0: never
  depsRet,            \* what getModuleDeps returned: [deps, err]
  modDepFile,         \* modules.dep: "ok", "missing" or "unreadable"
  modDisk,            \* the paths that exist under the module directory
  modPending,         \* the module names getInitfsModules has still to resolve
  modLog,             \* the getModule calls made: name and returned error
  modRet,             \* "running", or how the module loop ended
  \* ---- Archive.AddFile / writeCpio / addDir (pkgs/archive/archive.go) ----
  cphase,             \* where generateInitfs is: resolving, adding, writing, ...
  cfs,                \* the file system the archive is built from: path -> node
  cFiles,             \* archive.Files: source path -> written to the cpio
  cDirs,              \* archive.Dirs: directory -> written to the cpio
  stream,             \* the entries written to the cpio, in order
  dirsTodo,           \* the keys of Dirs that writeCpio's first loop has to visit
  filesTodo,          \* the keys of Files that writeCpio's second loop has to visit
  ncalls,             \* registrations and AddFile calls made so far
  lastReg,            \* the last `files[p] = false` of a resolver
  lastAdd,            \* the last AddFile call made from outside AddFile
  \* ---- main / bootDeploy (main.go) ----
  mpc,                \* position inside main
  mret,               \* "running", or how the process ended: "ok", "fatal"
  menv,               \* what main finds: deviceinfo, the kernels, boot-deploy
  mwork,              \* the work directory and the files in it
  mtrace,             \* the steps main has begun, in order
  mfail,              \* the step that failed, "" while none has
  \* ---- unmarshal / nameToField (pkgs/deviceinfo/deviceinfo.go) ----
  reader,             \* the lines of the io.Reader the scanner has not read yet
  devinfo,            \* the DeviceInfo unmarshal fills: field -> value
  lastLine,           \* the last line the loop handled: the struct before and after
  infoRet             \* "running", or what unmarshal returned: "nil", an error

writeVars == <<wpc, writeRet, archiveSize, actualFreeSpace, target, targetBefore,
               tmpOutDir, tmpOutFile, extractDir, tmpTargetFile, tmpFileChecksum,
               targetFileChecksum, deferred, trace>>

elfVars == <<fs, cwd, newFiles, required, pending, files, stack, walks, lastCall,
             elfRet>>

\* `files` is the one StringSet all resolvers fill.
depsVars == <<modName, depsRet>>
dbVars == <<modulesDep, scanFail>>
modVars == <<modDepFile, modDisk, modPending, modLog, modRet>>
cpioVars == <<cphase, cfs, cFiles, cDirs, stream, dirsTodo, filesTodo, ncalls,
              lastReg, lastAdd>>

mainVars == <<mpc, mret, menv, mwork, mtrace, mfail>>

infoVars == <<reader, devinfo, lastLine, infoRet>>

notWriteVars == <<elfVars, depsVars, dbVars, modVars, cpioVars, mainVars, infoVars>>
notElfVars == <<writeVars, depsVars, dbVars, modVars, cpioVars, mainVars, infoVars>>
notCpioVars == <<writeVars, elfVars, depsVars, dbVars, modVars, mainVars, infoVars>>
notMainVars == <<writeVars, elfVars, depsVars, dbVars, modVars, cpioVars, infoVars>>
notInfoVars == <<writeVars, elfVars, depsVars, dbVars, modVars, cpioVars, mainVars>>

vars == <<writeVars, elfVars, depsVars, dbVars, modVars, cpioVars, mainVars, infoVars>>

-----------------------------------------------------------------------------
(* Bounds *)
MaxSize == 3    \* archive sizes 1..MaxSize
MaxFree == 5    \* free space 0..MaxFree (0 is also what a failed statfs gives)
MaxDepth == 6   \* getBinaryDeps calls the goroutine stack holds before it overflows
MaxStem == 3    \* length of the separator-bearing part of a module name
MaxRegs == 2    \* paths the resolvers register before the archive is built
MaxAdds == 1    \* AddFile calls generateInitfs makes before Write
MaxValue == 2   \* characters of a deviceinfo value

-----------------------------------------------------------------------------
(* ======================  Archive.Write  ================================ *)

NoFile == "none"          \* the path does not exist
Mode == "0644"            \* the mode the callers pass (os.FileMode(0644))
TempFileMode == "0600"    \* the mode ioutil.TempFile creates files with

\* sha256 of a file's content, hex encoded; the empty string when the file
\* cannot be opened (checksum returns its zero `sum` with the error).
checksum(content) ==
  IF content = NoFile THEN "" ELSE "sha256:" \o content

\* freeSpace := int64(float64(actualFreeSpace) * 0.9): 10% withheld.  For
\* values below 2^53 the product truncates to floor(9/10 * actual).
UsableSpace(actual) == (actual * 9) \div 10

\* tmpOutFileSize.Size() >= freeSpace: the archive does not fit.
NotEnoughSpace_Reversed(size, freeSpace) == size <= freeSpace
NotEnoughSpace(size, freeSpace) == size >= freeSpace

\* tmpFileChecksum != targetFileChecksum
ChecksumMismatch_SelfCompare(tmpSum, targetSum) == tmpSum # tmpSum
ChecksumMismatch(tmpSum, targetSum) == tmpSum # targetSum

\* The deferred calls run when Write returns, newest first; what they leave
\* of the staged file and of the extraction directory.
AfterDeferred(d, staged, extr) ==
  [tmpOutFile |-> IF "Remove(tmpOutFile)" \in d THEN NoFile ELSE staged,
   extractDir |-> IF "RemoveAll(extractDir)" \in d THEN FALSE ELSE extr]

Range(s) == {s[i] : i \in DOMAIN s}

\* `return err` (or a panic unwinding): the deferred calls run, Write is over.
Return(err) ==
  /\ wpc' = "returned"
  /\ writeRet' = err
  /\ tmpOutFile' = AfterDeferred(Range(deferred), tmpOutFile, extractDir).tmpOutFile
  /\ extractDir' = AfterDeferred(Range(deferred), tmpOutFile, extractDir).extractDir
  /\ deferred' = <<>>

Goto(next, event) ==
  /\ wpc' = next
  /\ writeRet' = writeRet
  /\ trace' = Append(trace, event)

InitWrite ==
  /\ wpc = "writeCpio"
  /\ writeRet = "running"
  /\ archiveSize \in 1..MaxSize
  /\ actualFreeSpace \in 0..MaxFree
  /\ target \in {[content |-> NoFile, mode |-> NoFile],
                 [content |-> "old", mode |-> Mode],
                 [content |-> "old", mode |-> "0600"]}
  /\ targetBefore = target
  /\ tmpOutDir = FALSE
  /\ tmpOutFile = NoFile
  /\ extractDir = FALSE
  /\ tmpTargetFile = NoFile
  /\ tmpFileChecksum = ""
  /\ targetFileChecksum = ""
  /\ deferred = <<>>
  /\ trace = <<>>

\* archive.writeCpio() and archive.cpioWriter.Close()
WriteCpio ==
  /\ wpc = "writeCpio"
  /\ \E ok \in BOOLEAN :
       IF ok THEN /\ Goto("TempDir", "built")
                  /\ UNCHANGED <<tmpOutFile, extractDir, deferred>>
             ELSE /\ Return("err")
                  /\ UNCHANGED trace
  /\ UNCHANGED notWriteVars
  /\ UNCHANGED <<archiveSize, actualFreeSpace, target, targetBefore, tmpOutDir,
                 tmpTargetFile, tmpFileChecksum, targetFileChecksum>>

\* 1. tmpOutDir, err := ioutil.TempDir("", filepath.Base(path))
MakeTmpOutDir ==
  /\ wpc = "TempDir"
  /\ \E ok \in BOOLEAN :
       IF ok THEN /\ tmpOutDir' = TRUE
                  /\ Goto("writeCompressed", "tmpdir")
                  /\ UNCHANGED <<tmpOutFile, extractDir, deferred>>
             ELSE /\ Return("err")
                  /\ UNCHANGED <<tmpOutDir, trace>>
  /\ UNCHANGED notWriteVars
  /\ UNCHANGED <<archiveSize, actualFreeSpace, target, targetBefore,
                 tmpTargetFile, tmpFileChecksum, targetFileChecksum>>

\* 1. archive.writeCompressed(tmpOutFile, mode); defer os.Remove(tmpOutFile).
\* A failure returns before the defer is registered: of os.Create (no file),
\* or of a later call (the file is there, incomplete).
WriteCompressed ==
  /\ wpc = "writeCompressed"
  /\ \E outcome \in {"ok", "createFailed", "writeFailed"} :
       CASE outcome = "ok" ->
              /\ tmpOutFile' = "new"
              /\ deferred' = Append(deferred, "Remove(tmpOutFile)")
              /\ Goto("checksum", "staged")
              /\ UNCHANGED extractDir
         [] outcome = "createFailed" ->
              /\ Return("err")
              /\ UNCHANGED trace
         [] outcome = "writeFailed" ->
              /\ wpc' = "returned"
              /\ writeRet' = "err"
              /\ tmpOutFile' = "partial"
              /\ UNCHANGED <<extractDir, deferred, trace>>
  /\ UNCHANGED notWriteVars
  /\ UNCHANGED <<archiveSize, actualFreeSpace, target, targetBefore, tmpOutDir,
                 tmpTargetFile, tmpFileChecksum, targetFileChecksum>>

\* 2. tmpFileChecksum, err := checksum(tmpOutFile)
ChecksumStaged ==
  /\ wpc = "checksum"
  /\ \E ok \in BOOLEAN :
       IF ok THEN /\ tmpFileChecksum' = checksum(tmpOutFile)
                  /\ Goto("freeSpace", "summed")
                  /\ UNCHANGED <<tmpOutFile, extractDir, deferred>>
             ELSE /\ Return("err")
                  /\ UNCHANGED <<tmpFileChecksum, trace>>
  /\ UNCHANGED notWriteVars
  /\ UNCHANGED <<archiveSize, actualFreeSpace, target, targetBefore, tmpOutDir,
                 tmpTargetFile, targetFileChecksum>>

\* 3. os.Stat(tmpOutFile) (an error is only logged, the nil FileInfo then
\* panics at .Size()), misc.FreeSpace(targetDir) (never an error), the gate.
FreeSpaceGate ==
  /\ wpc = "freeSpace"
  /\ \E statOk \in BOOLEAN :
       IF ~statOk
         THEN /\ Return("panic")
              /\ UNCHANGED trace
         ELSE IF NotEnoughSpace(archiveSize, UsableSpace(actualFreeSpace))
                THEN /\ Return("err:NotEnoughSpace")
                     /\ UNCHANGED trace
                ELSE /\ Goto("extractDir", "spaceok")
                     /\ UNCHANGED <<tmpOutFile, extractDir, deferred>>
  /\ UNCHANGED notWriteVars
  /\ UNCHANGED <<archiveSize, actualFreeSpace, target, targetBefore, tmpOutDir,
                 tmpTargetFile, tmpFileChecksum, targetFileChecksum>>

\* 4. extractDir, err := ioutil.TempDir(tmpOutDir, "extract-test");
\*    defer os.RemoveAll(extractDir)
MakeExtractDir ==
  /\ wpc = "extractDir"
  /\ \E ok \in BOOLEAN :
       IF ok THEN /\ extractDir' = TRUE
                  /\ deferred' = Append(deferred, "RemoveAll(extractDir)")
                  /\ wpc' = "extract"
                  /\ UNCHANGED <<writeRet, tmpOutFile, trace>>
             ELSE /\ Return("err")
                  /\ UNCHANGED trace
  /\ UNCHANGED notWriteVars
  /\ UNCHANGED <<archiveSize, actualFreeSpace, target, targetBefore, tmpOutDir,
                 tmpTargetFile, tmpFileChecksum, targetFileChecksum>>

\* 4. extract(tmpOutFile, extractDir)
Extract ==
  /\ wpc = "extract"
  /\ \E ok \in BOOLEAN :
       IF ok THEN /\ Goto("TempFile", "extracted")
                  /\ UNCHANGED <<tmpOutFile, extractDir, deferred>>
             ELSE /\ Return("err")
                  /\ UNCHANGED trace
  /\ UNCHANGED notWriteVars
  /\ UNCHANGED <<archiveSize, actualFreeSpace, target, targetBefore, tmpOutDir,
                 tmpTargetFile, tmpFileChecksum, targetFileChecksum>>

\* 5. tmpTargetFileFd, err := ioutil.TempFile(targetDir, filepath.Base(path)):
\* a new, empty file whose name is the base name followed by random digits,
\* so never `path` itself.
MakeTempFile ==
  /\ wpc = "TempFile"
  /\ \E ok \in BOOLEAN :
       IF ok THEN /\ tmpTargetFile' = "empty"
                  /\ wpc' = "Open"
                  /\ UNCHANGED <<writeRet, tmpOutFile, extractDir, deferred, trace>>
             ELSE /\ Return("err")
                  /\ UNCHANGED <<tmpTargetFile, trace>>
  /\ UNCHANGED notWriteVars
  /\ UNCHANGED <<archiveSize, actualFreeSpace, target, targetBefore, tmpOutDir,
                 tmpFileChecksum, targetFileChecksum>>

\* 5. tmpOutFileFd, err := os.Open(tmpOutFile); defer tmpOutFileFd.Close()
OpenStaged ==
  /\ wpc = "Open"
  /\ \E ok \in BOOLEAN :
       IF ok THEN /\ deferred' = Append(deferred, "tmpOutFileFd.Close()")
                  /\ wpc' = "Copy"
                  /\ UNCHANGED <<writeRet, tmpOutFile, extractDir, trace>>
             ELSE /\ Return("err")
                  /\ UNCHANGED trace
  /\ UNCHANGED notWriteVars
  /\ UNCHANGED <<archiveSize, actualFreeSpace, target, targetBefore, tmpOutDir,
                 tmpTargetFile, tmpFileChecksum, targetFileChecksum>>

\* 5. io.Copy(tmpTargetFileFd, tmpOutFileFd): the bytes land in the temporary
\* file of the destination directory; they may arrive corrupted without an
\* error (what the checksum comparison is there to catch), or the copy fails
\* half way.
CopyToTarget_InPlace ==
  /\ wpc = "Copy"
  /\ \E outcome \in {tmpOutFile, "corrupt", "failed"} :
       IF outcome # "failed"
         THEN /\ target' = [content |-> outcome, mode |-> TempFileMode]
              /\ Goto("Sync", "copied")
              /\ UNCHANGED <<tmpOutFile, extractDir, deferred>>
         ELSE /\ target' = [content |-> "partial", mode |-> TempFileMode]
              /\ Return("err")
              /\ UNCHANGED trace
  /\ UNCHANGED notWriteVars
  /\ UNCHANGED <<archiveSize, actualFreeSpace, tmpTargetFile, targetBefore, tmpOutDir,
                 tmpFileChecksum, targetFileChecksum>>
CopyToTarget ==
  /\ wpc = "Copy"
  /\ \E outcome \in {tmpOutFile, "corrupt", "failed"} :
       IF outcome # "failed"
         THEN /\ tmpTargetFile' = outcome
              /\ Goto("Sync", "copied")
              /\ UNCHANGED <<tmpOutFile, extractDir, deferred>>
         ELSE /\ tmpTargetFile' = "partial"
              /\ Return("err")
              /\ UNCHANGED trace
  /\ UNCHANGED notWriteVars
  /\ UNCHANGED <<archiveSize, actualFreeSpace, target, targetBefore, tmpOutDir,
                 tmpFileChecksum, targetFileChecksum>>

\* 5. tmpTargetFileFd.Sync()
SyncTarget ==
  /\ wpc = "Sync"
  /\ \E ok \in BOOLEAN :
       IF ok THEN /\ Goto("Close", "synced")
                  /\ UNCHANGED <<tmpOutFile, extractDir, deferred>>
             ELSE /\ Return("err")
                  /\ UNCHANGED trace
  /\ UNCHANGED notWriteVars
  /\ UNCHANGED <<archiveSize, actualFreeSpace, target, targetBefore, tmpOutDir,
                 tmpTargetFile, tmpFileChecksum, targetFileChecksum>>

\* 5. tmpTargetFileFd.Close()
CloseTarget ==
  /\ wpc = "Close"
  /\ \E ok \in BOOLEAN :
       IF ok THEN /\ Goto("compare", "closed")
                  /\ UNCHANGED <<tmpOutFile, extractDir, deferred>>
             ELSE /\ Return("err")
                  /\ UNCHANGED trace
  /\ UNCHANGED notWriteVars
  /\ UNCHANGED <<archiveSize, actualFreeSpace, target, targetBefore, tmpOutDir,
                 tmpTargetFile, tmpFileChecksum, targetFileChecksum>>

\* 6. targetFileChecksum, err := checksum(tmpTargetFileFd.Name()) (the error is
\* dropped: a file that cannot be opened gives the empty sum), then the
\* comparison with tmpFileChecksum.
CompareChecksums ==
  /\ wpc = "compare"
  /\ \E opened \in BOOLEAN :
       LET sum == IF opened THEN checksum(tmpTargetFile) ELSE checksum(NoFile) IN
       /\ targetFileChecksum' = sum
       /\ IF ChecksumMismatch(tmpFileChecksum, sum)
            THEN /\ Return("err:checksum mismatch")
                 /\ UNCHANGED trace
            ELSE /\ Goto("Rename", "matched")
                 /\ UNCHANGED <<tmpOutFile, extractDir, deferred>>
  /\ UNCHANGED notWriteVars
  /\ UNCHANGED <<archiveSize, actualFreeSpace, target, targetBefore, tmpOutDir,
                 tmpTargetFile, tmpFileChecksum>>

\* 7. os.Rename(tmpTargetFileFd.Name(), path)
Rename ==
  /\ wpc = "Rename"
  /\ \E ok \in BOOLEAN :
       IF ok THEN /\ target' = [content |-> tmpTargetFile, mode |-> TempFileMode]
                  /\ tmpTargetFile' = NoFile
                  /\ Goto("Chmod", "renamed")
                  /\ UNCHANGED <<tmpOutFile, extractDir, deferred>>
             ELSE /\ Return("err")
                  /\ UNCHANGED <<target, tmpTargetFile, trace>>
  /\ UNCHANGED notWriteVars
  /\ UNCHANGED <<archiveSize, actualFreeSpace, targetBefore, tmpOutDir,
                 tmpFileChecksum, targetFileChecksum>>

\* 7. os.Chmod(path, mode); return nil
Chmod ==
  /\ wpc = "Chmod"
  /\ \E ok \in BOOLEAN :
       IF ok THEN /\ target' = [target EXCEPT !.mode = Mode]
                  /\ Return("nil")
             ELSE /\ Return("err")
                  /\ UNCHANGED target
  /\ UNCHANGED notWriteVars
  /\ UNCHANGED <<archiveSize, actualFreeSpace, targetBefore, tmpOutDir,
                 tmpTargetFile, tmpFileChecksum, targetFileChecksum, trace>>

NextWrite ==
  \/ WriteCpio
  \/ MakeTmpOutDir
  \/ WriteCompressed
  \/ ChecksumStaged
  \/ FreeSpaceGate
  \/ MakeExtractDir
  \/ Extract
  \/ MakeTempFile
  \/ OpenStaged
  \/ CopyToTarget
  \/ SyncTarget
  \/ CloseTarget
  \/ CompareChecksums
  \/ Rename
  \/ Chmod


-----------------------------------------------------------------------------
(* ===============  getFiles / getFile / getBinaryDeps  ================== *)

\* A path: its directory and its base name (filepath.Dir, filepath.Base).  A
\* relative link target that is a bare name has the directory ".".
P(dir, base) == [dir |-> dir, base |-> base]

X  == P("/bin", "x")
L  == P("/bin", "l")
UA == P("/usr/lib", "a")
UB == P("/usr/lib", "b")
LA == P("/lib", "a")
LB == P("/lib", "b")
AllPaths == {X, L, UA, UB, LA, LB}
NoPath == P("", "")

\* libdirs := []string{"/usr/lib", "/lib"}
LibDirs == <<"/usr/lib", "/lib">>

Missing == [kind |-> "missing"]
RegularFile == [kind |-> "file"]          \* a file that is not an ELF binary
Elf(libs) == [kind |-> "elf", libs |-> libs]   \* libs: fd.ImportedLibraries()
Link(t) == [kind |-> "link", target |-> t]     \* target: os.Readlink

\* os.Lstat(p): the node at p itself, links not followed.
Lstat(p) == IF p \in DOMAIN fs THEN fs[p] ELSE Missing

\* filepath.IsAbs
IsAbs(p) == p.dir # "."

\* Where the kernel takes a link to: a relative target is relative to the
\* directory of the link.
LinkTarget(p) ==
  LET t == Lstat(p).target IN IF IsAbs(t) THEN t ELSE P(p.dir, t.base)

\* os.Stat(p), os.Open(p): links are followed; a dangling link or a loop of
\* links gives an error, here the missing node.
RECURSIVE Follow(_, _)
Follow(p, fuel) ==
  IF Lstat(p).kind # "link" THEN Lstat(p)
  ELSE IF fuel = 0 THEN Missing
  ELSE Follow(LinkTarget(p), fuel - 1)

Stat(p) == Follow(p, Cardinality(DOMAIN fs))

\* exists(file): os.Stat(file) gives no error.
exists(p) == Stat(p).kind # "missing"

\* elf.Open(file) gives no error.
elfOpen(p) == Stat(p).kind = "elf"

\* files[k] = v on a StringSet (map[string]bool).
Put(m, k, v) == [x \in DOMAIN m \cup {k} |-> IF x = k THEN v ELSE m[x]]
EmptySet == [x \in {} |-> FALSE]

\* misc.RelativeSymlinkTargetToDir(symPath, dir) with the working directory wd:
\* every way the call can end, as (path, error, working directory left).
\* Getwd or Chdir(dir) fails: the working directory is as before.  filepath.Abs
\* or the Chdir back fails: the process stays in dir.
RelativeSymlinkTargetToDir(symPath, dir, wd) ==
  { [path |-> NoPath, err |-> TRUE, cwd |-> wd],
    [path |-> NoPath, err |-> TRUE, cwd |-> dir],
    [path |-> P(dir, symPath.base), err |-> TRUE, cwd |-> dir],
    [path |-> P(dir, symPath.base), err |-> FALSE, cwd |-> wd] }

\* The inner loop of getBinaryDeps over libdirs: the first directory in which
\* os.Stat(filepath.Join(libdir, lib)) succeeds, NoPath when there is none.
FindLib(lib) ==
  LET hits == {k \in DOMAIN LibDirs : exists(P(LibDirs[k], lib))} IN
  IF hits = {} THEN NoPath
  ELSE P(LibDirs[CHOOSE k \in hits : \A j \in hits : k <= j], lib)

\* A getBinaryDeps call in progress: "enter" at its first line, "link" waiting
\* for the call on the link's target, "lib" for the call on the i-th library.
Frame(file, stage, i) == [file |-> file, stage |-> stage, i |-> i]

Top(st) == st.stack[Len(st.stack)]
MarkTop(st, stage, i) ==
  [st EXCEPT !.stack[Len(st.stack)] = Frame(Top(st).file, stage, i)]

\* getBinaryDeps(files, file) is called: a new frame, unless the stack is full
\* (the Go runtime ends the process with a stack overflow).
Call(st, file) ==
  IF Len(st.stack) >= MaxDepth
    THEN [st EXCEPT !.stack = <<>>, !.ret = "overflow"]
    ELSE [st EXCEPT !.stack = Append(st.stack, Frame(file, "enter", 0)),
                    !.walks[file] = @ + 1]

\* log.Fatal: the process exits.
Fatal(st) == [st EXCEPT !.stack = <<>>, !.ret = "fatal"]

RECURSIVE Unwind(_, _), NextLib(_, _)
\* The call on top of the stack returns err to its caller: a frame waiting on
\* a link target passes the result on; a frame in the library loop returns a
\* non-nil error, and otherwise registers the path of the library
\* (files[path] = false) and goes on with the next library.
Unwind(st, err) ==
  LET rest == SubSeq(st.stack, 1, Len(st.stack) - 1)
      callee == Top(st).file
      st1 == [st EXCEPT !.stack = rest]
  IN  IF rest = <<>> THEN [st1 EXCEPT !.ret = err]
      ELSE IF Top(st1).stage = "link" THEN Unwind(st1, err)
      ELSE IF err # "nil" THEN Unwind(st1, err)
      ELSE NextLib([st1 EXCEPT !.files = Put(st1.files, callee, FALSE)],
                   Top(st1).i + 1)

\* The library loop of the frame on top at its i-th library: past the last one
\* the call returns nil; a library found in no libdir is fatal; otherwise
\* getBinaryDeps is called on the path found.
NextLib(st, i) ==
  LET libs == Lstat(Top(st).file).libs IN
  IF i > Len(libs) THEN Unwind(st, "nil")
  ELSE IF FindLib(libs[i]) = NoPath THEN Fatal(st)
  ELSE Call(MarkTop(st, "lib", i), FindLib(libs[i]))

\* getBinaryDeps from its first line to its next call or its return, for the
\* frame on top: every state it can lead to.
getBinaryDeps(st) ==
  LET file == Top(st).file
      node == Lstat(file)
  IN  CASE node.kind = "missing" ->
             {Unwind(st, "err")}
        [] node.kind = "link" /\ IsAbs(node.target) ->
             {Call(MarkTop(st, "link", 0), node.target)}
        [] node.kind = "link" /\ ~IsAbs(node.target) ->
             { IF o.err THEN Unwind([st EXCEPT !.cwd = o.cwd], "err")
                        ELSE Call([MarkTop(st, "link", 0) EXCEPT !.cwd = o.cwd], o.path)
               : o \in RelativeSymlinkTargetToDir(node.target, file.dir, st.cwd) }
        [] node.kind = "file" ->
             {Fatal(st)}
        [] node.kind = "elf" ->
             LET st1 == [st EXCEPT !.files = Put(st.files, file, FALSE)] IN
             IF Len(node.libs) = 0 THEN {Unwind(st1, "nil")}
             ELSE {NextLib(st1, 1)}

\* getFile(files, file, required) up to its call of getBinaryDeps: the set
\* after it, what it returns ("running": getBinaryDeps is called).
getFile_RegisterFirst(fl, file, req) ==
  IF ~exists(file)
    THEN [files |-> Put(fl, file, FALSE), ret |-> IF req THEN "err" ELSE "nil"]
    ELSE IF ~elfOpen(file)
      THEN [files |-> Put(fl, file, FALSE), ret |-> "nil"]
      ELSE [files |-> Put(fl, file, FALSE), ret |-> "running"]
getFile(fl, file, req) ==
  IF ~exists(file)
    THEN [files |-> fl, ret |-> IF req THEN "err" ELSE "nil"]
    ELSE IF ~elfOpen(file)
      THEN [files |-> Put(fl, file, FALSE), ret |-> "nil"]
      ELSE [files |-> Put(fl, file, FALSE), ret |-> "running"]

\* getFiles after a getFile call that returned ret, with rest still to range
\* over: an error is returned at once, nil after the last file.
getFiles(ret, rest) ==
  IF ret # "nil" THEN ret
  ELSE IF rest = {} THEN "nil" ELSE "running"

NoCall == [file |-> NoPath, existed |-> FALSE, before |-> EmptySet,
           after |-> EmptySet, ret |-> "none"]

InitElf ==
  /\ \E x \in {Missing, RegularFile, Elf(<<>>), Elf(<<"a">>), Elf(<<"a", "b">>)},
        l \in {Missing, Link(X), Link(P(".", "x")), Link(UA)},
        ua \in {Missing, Elf(<<>>), Elf(<<"b">>), Link(LA), Link(P(".", "b"))},
        la \in {Missing, RegularFile, Elf(<<>>), Elf(<<"b">>)},
        ub \in {Missing, Elf(<<>>), Elf(<<"a">>)} :
       fs = [p \in {X, L, UA, LA, UB} |->
               CASE p = X -> x [] p = L -> l [] p = UA -> ua
                 [] p = LA -> la [] p = UB -> ub]
  /\ cwd = "/"
  /\ newFiles \in {{X}, {L}, {X, L}}
  /\ required \in BOOLEAN
  /\ pending = newFiles
  /\ files = EmptySet
  /\ stack = <<>>
  /\ walks = [p \in AllPaths |-> 0]
  /\ lastCall = NoCall
  /\ elfRet = "running"

\* One turn of the range loop of getFiles: getFile on a member of newFiles (a
\* map, ranged over in any order), up to its return or its getBinaryDeps call.
GetFile ==
  /\ elfRet = "running"
  /\ stack = <<>>
  /\ \E file \in pending :
       LET r == getFile(files, file, required)
           st == Call([stack |-> stack, files |-> r.files, walks |-> walks,
                       cwd |-> cwd, ret |-> "running"], file)
       IN  /\ pending' = pending \ {file}
           /\ files' = r.files
           /\ lastCall' = [file |-> file, existed |-> exists(file), before |-> files,
                           after |-> r.files, ret |-> r.ret]
           /\ IF r.ret = "running"
                THEN /\ stack' = st.stack
                     /\ walks' = st.walks
                     /\ elfRet' = st.ret
                ELSE /\ elfRet' = getFiles(r.ret, pending \ {file})
                     /\ UNCHANGED <<stack, walks>>
  /\ UNCHANGED <<fs, cwd, newFiles, required>>
  /\ UNCHANGED notElfVars

\* The getBinaryDeps call on top of the stack runs to its next call or, through
\* the returns it causes, to the return of getFile.
GetBinaryDeps ==
  /\ elfRet = "running"
  /\ stack # <<>>
  /\ \E st \in getBinaryDeps([stack |-> stack, files |-> files, walks |-> walks,
                              cwd |-> cwd, ret |-> "running"]) :
       /\ stack' = st.stack
       /\ files' = st.files
       /\ walks' = st.walks
       /\ cwd' = st.cwd
       /\ IF st.ret = "running"
            THEN UNCHANGED <<lastCall, elfRet>>
            ELSE /\ lastCall' = [lastCall EXCEPT !.after = st.files, !.ret = st.ret]
                 /\ elfRet' = getFiles(st.ret, pending)
  /\ UNCHANGED <<fs, newFiles, required, pending>>
  /\ UNCHANGED notElfVars

NextElf ==
  \/ GetFile
  \/ GetBinaryDeps


-----------------------------------------------------------------------------
(* =====================  getModule / getModuleDeps  ===================== *)

\* Strings are sequences of one-character strings.  The alphabet of module
\* names and paths is letters, digits, '-', '_', '.' and '/'; of these only
\* '.' means something else than itself in a regular expression.
Separators == {"-", "_"}
WhiteSpace == {" ", "\t"}

Min(S) == CHOOSE k \in S : \A j \in S : k <= j
Max(S) == CHOOSE k \in S : \A j \in S : k >= j

\* stripExts(file): strings.Split(file, ".")[0], what precedes the first '.'
\* of the whole string.
stripExts(file) ==
  LET dots == {i \in DOMAIN file : file[i] = "."} IN
  IF dots = {} THEN file ELSE SubSeq(file, 1, Min(dots) - 1)

\* filepath.Base(path): "." for the empty path; trailing slashes dropped; the
\* part after the last slash; "/" when the path is slashes only.
Base(path) ==
  LET keep == {i \in DOMAIN path : path[i] # "/"} IN
  IF path = <<>> THEN <<".">>
  ELSE IF keep = {} THEN <<"/">>
  ELSE LET last == Max(keep)
           slashes == {i \in 1..last : path[i] = "/"}
       IN  SubSeq(path, IF slashes = {} THEN 1 ELSE Max(slashes) + 1, last)

\* strings.TrimSuffix(s, ":")
TrimSuffixColon(s) ==
  IF Len(s) > 0 /\ s[Len(s)] = ":" THEN SubSeq(s, 1, Len(s) - 1) ELSE s

\* strings.Fields(line): the maximal runs of non-space characters.
RECURSIVE Fields(_)
Fields(line) ==
  LET ink == {i \in DOMAIN line : line[i] \notin WhiteSpace} IN
  IF ink = {} THEN <<>>
  ELSE LET from == Min(ink)
           gaps == {i \in from..Len(line) : line[i] \in WhiteSpace}
           to == IF gaps = {} THEN Len(line) ELSE Min(gaps) - 1
       IN  <<SubSeq(line, from, to)>> \o Fields(SubSeq(line, to + 1, Len(line)))

\* splitRe.ReplaceAllString(modName, "[-_]+") with splitRe = "[-_]+": every
\* maximal run of '-' and '_' becomes the text "[-_]+", kept here as one token.
SepPlus == "[-_]+"
RECURSIVE ReplaceSeparators_UnderscoreOnly(_)
ReplaceSeparators_UnderscoreOnly(name) ==
  IF name = <<>> THEN <<>>
  ELSE IF Head(name) = "_"
    THEN LET rest == ReplaceSeparators_UnderscoreOnly(Tail(name)) IN
         IF rest # <<>> /\ Head(rest) = SepPlus THEN rest ELSE <<SepPlus>> \o rest
    ELSE <<Head(name)>> \o ReplaceSeparators_UnderscoreOnly(Tail(name))
RECURSIVE ReplaceSeparators(_)
ReplaceSeparators(name) ==
  IF name = <<>> THEN <<>>
  ELSE IF Head(name) \in Separators
    THEN LET rest == ReplaceSeparators(Tail(name)) IN
         IF rest # <<>> /\ Head(rest) = SepPlus THEN rest ELSE <<SepPlus>> \o rest
    ELSE <<Head(name)>> \o ReplaceSeparators(Tail(name))

\* modNameReStr: the text the matcher is compiled from; the query goes in as
\* it was given.
modNameReStr_Stripped(name) == ReplaceSeparators(stripExts(Base(name)))
modNameReStr(name) == ReplaceSeparators(name)

\* regexp.MustCompile("^" + modNameReStr + "$") applied to a string: the whole
\* string must match.  "[-_]+" takes one or more separators, '.' any one
\* character but a newline, every other character itself.
RECURSIVE Matches(_, _)
Matches(re, str) ==
  IF re = <<>> THEN str = <<>>
  ELSE IF str = <<>> THEN FALSE
  ELSE IF Head(re) = SepPlus
    THEN Head(str) \in Separators
         /\ (Matches(Tail(re), Tail(str)) \/ Matches(re, Tail(str)))
  ELSE IF Head(re) = "."
    THEN Head(str) # "\n" /\ Matches(Tail(re), Tail(str))
  ELSE Head(re) = Head(str) /\ Matches(Tail(re), Tail(str))

\* The fields of a line with fields[0] = strings.TrimSuffix(fields[0], ":").
LineFields(line) ==
  LET f == Fields(line) IN
  IF f = <<>> THEN <<>> ELSE <<TrimSuffixColon(f[1])>> \o Tail(f)

\* filepath.Base(stripExts(fields[0])): the name a line is matched under.
CanonicalName(line) == Base(stripExts(LineFields(line)[1]))

\* The scan loop of getModuleDeps from line k on: the fields of the first
\* line that matches, with the scanner failing at line failAt (0: never).
RECURSIVE Scan(_, _, _, _)
Scan(re, lines, k, failAt) ==
  IF k = failAt THEN [deps |-> <<>>, err |-> TRUE]
  ELSE IF k > Len(lines) THEN [deps |-> <<>>, err |-> FALSE]
  ELSE IF Fields(lines[k]) = <<>> THEN Scan(re, lines, k + 1, failAt)
  ELSE IF Matches(re, CanonicalName(lines[k]))
    THEN [deps |-> LineFields(lines[k]), err |-> FALSE]
  ELSE Scan(re, lines, k + 1, failAt)

\* getModuleDeps(modName, modulesDep)
getModuleDeps(name, lines, failAt) == Scan(modNameReStr(name), lines, 1, failAt)

\* filepath.Join(modDir, dep), for a dep without "." and ".." elements or
\* doubled slashes (Clean changes nothing).
ModDir == <<"m">>
Join(dir, dep) == dir \o <<"/">> \o dep

\* The loop of getModule over deps: a path that does not exist ends it with
\* `return err`, err being what getModuleDeps returned.
RECURSIVE AddDeps(_, _, _, _, _)
AddDeps(fl, deps, i, err, disk) ==
  IF i > Len(deps) THEN [files |-> fl, ret |-> err]
  ELSE IF Join(ModDir, deps[i]) \notin disk THEN [files |-> fl, ret |-> err]
  ELSE AddDeps(Put(fl, Join(ModDir, deps[i]), FALSE), deps, i + 1, err, disk)

\* getModule(files, modName, modDir)
getModule_NotFoundIsError(fl, name, lines, failAt, depFile, disk) ==
  IF depFile = "missing" THEN [files |-> fl, ret |-> "fatal"]
  ELSE IF depFile = "unreadable" THEN [files |-> fl, ret |-> "err"]
  ELSE LET r == getModuleDeps(name, lines, failAt) IN
       IF r.err \/ r.deps = <<>> THEN [files |-> fl, ret |-> "err"]
       ELSE AddDeps(fl, r.deps, 1, "nil", disk)
getModule(fl, name, lines, failAt, depFile, disk) ==
  IF depFile = "missing" THEN [files |-> fl, ret |-> "fatal"]
  ELSE IF depFile = "unreadable" THEN [files |-> fl, ret |-> "err"]
  ELSE LET r == getModuleDeps(name, lines, failAt) IN
       IF r.err THEN [files |-> fl, ret |-> "err"]
       ELSE AddDeps(fl, r.deps, 1, "nil", disk)

\* --- the inputs the model draws from ---
\* "k/a_a.k: k/c.k"
LineAA == <<"k","/","a","_","a",".","k",":"," ","k","/","c",".","k">>
\* "k/c.k:"
LineC == <<"k","/","c",".","k",":">>
\* "k/a-a.k.x:"
LineAdA == <<"k","/","a","-","a",".","k",".","x",":">>
\* "k/a__a.k: k/c.k \tk/a_a.k"
LineA2 == <<"k","/","a","_","_","a",".","k",":"," ","k","/","c",".","k"," ","\t",
            "k","/","a","_","a",".","k">>
\* "k/a-.k:"
LineAs == <<"k","/","a","-",".","k",":">>
\* "k/a.k k/c.k" (no colon)
LineA == <<"k","/","a",".","k"," ","k","/","c",".","k">>
\* "d.1/a.k:" (a directory with a '.')
LineDot == <<"d",".","1","/","a",".","k",":">>
LineEmpty == <<>>
LineBlank == <<" ", "\t">>

Databases ==
  { <<LineAA, LineC>>,
    <<LineC, LineEmpty, LineAdA>>,
    <<LineA2, LineAA>>,
    <<LineBlank, LineAs, LineA>>,
    <<LineDot, LineC>>,
    <<>> }

\* Module names over 'a' and the separators, as they are, with a directory in
\* front ("k/a_a"), with an extension ("a_a.k") or both.
RECURSIVE Stems(_)
Stems(n) ==
  IF n = 0 THEN {<<>>}
  ELSE Stems(n - 1) \cup {<<c>> \o t : c \in {"a", "-", "_"}, t \in Stems(n - 1)}

Queries ==
  {pre \o stem \o ext : pre \in {<<>>, <<"k", "/">>},
                        stem \in Stems(MaxStem),
                        ext \in {<<>>, <<".", "k">>}}

InitDeps ==
  /\ modName \in Queries
  /\ modulesDep \in Databases
  /\ scanFail \in 0..Len(modulesDep)
  /\ depsRet = [deps |-> <<>>, err |-> FALSE, called |-> FALSE]

\* getModuleDeps(modName, modulesDep) is called and returns.
GetModuleDeps ==
  /\ ~depsRet.called
  /\ depsRet' = [deps |-> getModuleDeps(modName, modulesDep, scanFail).deps,
                 err |-> getModuleDeps(modName, modulesDep, scanFail).err,
                 called |-> TRUE]
  /\ UNCHANGED <<modName, dbVars, modVars, writeVars, elfVars, cpioVars,
                 mainVars, infoVars>>

NextDeps ==
  \/ GetModuleDeps

\* --- getInitfsModules' loop over the modules of deviceinfo ---
ModNames == {<<"a","_","a">>, <<"a","-","a">>, <<"c">>, <<"z">>}

\* The paths a database names, joined to the module directory.
RECURSIVE PathsOf(_)
PathsOf(lines) ==
  IF lines = <<>> THEN {}
  ELSE {Join(ModDir, LineFields(Head(lines))[i]) : i \in DOMAIN LineFields(Head(lines))}
       \cup PathsOf(Tail(lines))

InitMod ==
  /\ modulesDep \in Databases
  /\ scanFail \in 0..Len(modulesDep)
  /\ modDepFile \in {"ok", "missing", "unreadable"}
  /\ modDisk \in {PathsOf(modulesDep)} \cup
                 {PathsOf(modulesDep) \ {q} : q \in PathsOf(modulesDep)}
  /\ modPending \in {<<n>> : n \in ModNames} \cup
                    {<<n1, n2>> : n1 \in ModNames, n2 \in ModNames}
  /\ modLog = <<>>
  /\ modRet = "running"
  /\ files = EmptySet

\* One turn of `for _, module := range strings.Fields(devinfo.ModulesInitfs)`:
\* getModule on the next name; a non-nil error is returned at once.
GetModule ==
  /\ modRet = "running"
  /\ modPending # <<>>
  /\ LET r == getModule(files, Head(modPending), modulesDep, scanFail, modDepFile,
                        modDisk)
     IN  /\ files' = r.files
         /\ modLog' = Append(modLog, [name |-> Head(modPending), ret |-> r.ret,
                                      before |-> files, after |-> r.files])
         /\ modRet' = IF r.ret # "nil" THEN r.ret
                      ELSE IF Tail(modPending) = <<>> THEN "nil" ELSE "running"
  /\ modPending' = Tail(modPending)
  /\ UNCHANGED <<modDepFile, modDisk, dbVars, depsVars, writeVars, cpioVars,
                 mainVars, infoVars>>
  /\ UNCHANGED <<fs, cwd, newFiles, required, pending, stack, walks, lastCall, elfRet>>

NextMod ==
  \/ GetModule

-----------------------------------------------------------------------------
(* ==============  Archive.AddFile / writeCpio / addDir  ================= *)

\* A path is the sequence of its elements, each one character long: "/b/x"
\* is Abs(<<"b", "x">>), "../b/x" is Rel(<<"..", "b", "x">>), "/" is
\* Abs(<<>>) and "." is Rel(<<>>).
Abs(elems) == [abs |-> TRUE, elems |-> elems]
Rel(elems) == [abs |-> FALSE, elems |-> elems]
Dot == Rel(<<>>)
\* The empty string, what RelativeSymlinkTargetToDir returns with an error.
EmptyPath == [abs |-> FALSE, elems |-> <<"">>]

\* len(path) for a path that is not "/" or ".": the elements (".." is two
\* characters), the slashes between them and the leading slash.
RECURSIVE ElemsLen(_)
ElemsLen(elems) ==
  IF elems = <<>> THEN 0
  ELSE (IF Head(elems) = ".." THEN 2 ELSE 1) + ElemsLen(Tail(elems))
StrLen(p) == ElemsLen(p.elems) + Len(p.elems) - 1 + (IF p.abs THEN 1 ELSE 0)

\* filepath.Dir(path)
Dir(p) ==
  IF p.elems = <<>> THEN p
  ELSE [abs |-> p.abs, elems |-> SubSeq(p.elems, 1, Len(p.elems) - 1)]

\* filepath.Clean on the elements of an absolute path: ".." takes the element
\* before it away, and nothing at the root.
RECURSIVE CleanElems(_, _)
CleanElems(done, rest) ==
  IF rest = <<>> THEN done
  ELSE IF Head(rest) = ".."
    THEN CleanElems(IF done = <<>> THEN done ELSE SubSeq(done, 1, Len(done) - 1),
                    Tail(rest))
    ELSE CleanElems(Append(done, Head(rest)), Tail(rest))

\* filepath.Join(dir, target) for an absolute dir.
JoinPath(dir, tgt) == Abs(CleanElems(<<>>, dir.elems \o tgt.elems))

\* strings.TrimPrefix(dest, "/"): the name of the entry.
TrimSlash(dest) == Rel(dest.elems)

\* --- the file system ---
CFile == [kind |-> "file"]
CDir == [kind |-> "dir"]
CLink(t) == [kind |-> "link", target |-> t]

\* os.Lstat(file): a path under which other paths exist is a directory.
CLstat(disk, p) ==
  IF p \in DOMAIN disk THEN disk[p]
  ELSE IF \E q \in DOMAIN disk :
            /\ q.abs = p.abs
            /\ Len(q.elems) > Len(p.elems)
            /\ SubSeq(q.elems, 1, Len(p.elems)) = p.elems
    THEN CDir
  ELSE Missing

\* --- the entries of the cpio stream ---
NoSrc == Rel(<<"-">>)
DirEntry(path) ==
  [kind |-> "dir", name |-> path, link |-> Dot, size |-> 0, src |-> NoSrc]
\* cpio.Header{Name, Mode: Perm()}; Size is the size of the file, left out.
FileEntry(file, dest) ==
  [kind |-> "file", name |-> TrimSlash(dest), link |-> Dot, size |-> 0, src |-> file]
\* cpio.Header{Name, Linkname: target, Mode: 0644|ModeSymlink, Size: len(target)}
SymlinkHeader_NoSize(file, dest, tgt) ==
  [kind |-> "link", name |-> TrimSlash(dest), link |-> tgt, size |-> 0,
   src |-> file]
SymlinkHeader(file, dest, tgt) ==
  [kind |-> "link", name |-> TrimSlash(dest), link |-> tgt,
   size |-> StrLen(tgt), src |-> file]

\* The archive: [Files, Dirs, stream], and err once a call has failed.
Emit(a, entry) == [a EXCEPT !.stream = Append(@, entry)]

\* archive.Files[file], archive.Dirs[dir]: false for a key that is not there.
Materialized_Never(m, k) == FALSE
Materialized(m, k) == k \in DOMAIN m /\ m[k]

\* The loop of addDir over subdirs[:i]: each prefix not yet in Dirs gets a
\* directory header and is marked.
RECURSIVE AddSubdirs_LeafOnly(_, _, _)
AddSubdirs_LeafOnly(a, elems, i) ==
  IF i > Len(elems) THEN a
  ELSE IF i < Len(elems) \/ Materialized(a.Dirs, Rel(SubSeq(elems, 1, i)))
    THEN AddSubdirs_LeafOnly(a, elems, i + 1)
  ELSE AddSubdirs_LeafOnly(
         [Emit(a, DirEntry(Rel(SubSeq(elems, 1, i))))
            EXCEPT !.Dirs = Put(@, Rel(SubSeq(elems, 1, i)), TRUE)],
         elems, i + 1)
RECURSIVE AddSubdirs(_, _, _)
AddSubdirs(a, elems, i) ==
  IF i > Len(elems) THEN a
  ELSE IF Materialized(a.Dirs, Rel(SubSeq(elems, 1, i)))
    THEN AddSubdirs(a, elems, i + 1)
  ELSE AddSubdirs(
         [Emit(a, DirEntry(Rel(SubSeq(elems, 1, i))))
            EXCEPT !.Dirs = Put(@, Rel(SubSeq(elems, 1, i)), TRUE)],
         elems, i + 1)

\* addDir(dir): "/" and "." both come out as the one subdir ".".
addDir(a, dir) ==
  IF Materialized(a.Dirs, dir) THEN a
  ELSE IF dir.elems = <<>>
    THEN IF Materialized(a.Dirs, Dot) THEN a
         ELSE [Emit(a, DirEntry(Dot)) EXCEPT !.Dirs = Put(@, Dot, TRUE)]
  ELSE AddSubdirs(a, dir.elems, 1)

\* The target AddFile goes on with: a bare name is joined to the directory of
\* the link, another relative target goes through
\* misc.RelativeSymlinkTargetToDir, whose error is dropped and whose path is
\* empty when Getwd or Chdir failed (wdOk false).
LinkDestination(file, tgt, wdOk) ==
  IF ~tgt.abs /\ Len(tgt.elems) = 1 THEN JoinPath(Dir(file), tgt)
  ELSE IF tgt.abs THEN tgt
  ELSE IF wdOk THEN JoinPath(Dir(file), tgt)
  ELSE EmptyPath

\* AddFile(file, dest)
RECURSIVE AddFile(_, _, _, _, _)
AddFile(a0, disk, file, dest, wdOk) ==
  LET a == addDir(a0, Dir(dest))
      st == CLstat(disk, file)
  IN  IF Materialized(a.Files, file) THEN a
      ELSE IF file = EmptyPath \/ st.kind = "missing" THEN [a EXCEPT !.err = TRUE]
      ELSE IF st.kind = "link"
        THEN AddFile([Emit(a, SymlinkHeader(file, dest, st.target))
                        EXCEPT !.Files = Put(@, file, TRUE)],
                     disk,
                     LinkDestination(file, st.target, wdOk),
                     LinkDestination(file, st.target, wdOk),
                     wdOk)
      ELSE IF st.kind = "dir"
        \* the header is written, io.Copy from a directory fails
        THEN [Emit(a, FileEntry(file, dest)) EXCEPT !.err = TRUE]
      ELSE [Emit(a, FileEntry(file, dest)) EXCEPT !.Files = Put(@, file, TRUE)]

\* --- the inputs the model draws from ---
PBX == Abs(<<"b", "x">>)
PBL == Abs(<<"b", "l">>)
PLA == Abs(<<"l", "a">>)
PLB == Abs(<<"l", "b">>)
PSI == Abs(<<"s", "i">>)
PI == Abs(<<"i">>)
PQ == Abs(<<"q">>)
PULC == Abs(<<"u", "l", "c">>)

\* /b/l -> x, /l/a -> ../b/l, /l/b -> /l/a: a chain of three links to /b/x.
DiskChain ==
  (PBX :> CFile) @@ (PBL :> CLink(Rel(<<"x">>))) @@
  (PLA :> CLink(Rel(<<"..", "b", "l">>))) @@ (PLB :> CLink(Abs(<<"l", "a">>))) @@
  (PSI :> CFile) @@ (PI :> CFile) @@ (PULC :> CFile)
\* /b/l -> /l, a directory.
DiskDir ==
  (PBX :> CFile) @@ (PBL :> CLink(Abs(<<"l">>))) @@ (PLA :> CFile) @@ (PSI :> CFile)
\* /b/l -> y, which is not there.
DiskDangling ==
  (PBX :> CFile) @@ (PBL :> CLink(Rel(<<"y">>))) @@ (PSI :> CFile) @@ (PI :> CFile)

Disks == {DiskChain, DiskDir, DiskDangling}

\* requiredDirs of generateInitfs: Dirs[dir] = false.
RequiredDirs == (Abs(<<"b">>) :> FALSE) @@ (Abs(<<"u", "t">>) :> FALSE)

\* AddFile(src, dest) as generateInitfs calls it: init.sh as /init, a file
\* under its base name, a file under its own path.
AddArgs ==
  {<<PSI, PI>>, <<PBX, PI>>, <<PBL, PQ>>, <<PLB, PLB>>, <<PBX, PBX>>, <<PULC, PULC>>}

NoReg == [path |-> Dot, wasMember |-> FALSE, before |-> EmptySet, after |-> EmptySet]
NoAdd == [src |-> Dot, dest |-> Dot, ret |-> "none", pre |-> 0, was |-> FALSE]

TheArchive == [Files |-> cFiles, Dirs |-> cDirs, stream |-> stream, err |-> FALSE]

InitCpio ==
  /\ cphase = "resolving"
  /\ cfs \in Disks
  /\ cFiles = EmptySet
  /\ cDirs \in {EmptySet, RequiredDirs}
  /\ stream = <<>>
  /\ dirsTodo = {}
  /\ filesTodo = {}
  /\ ncalls = [regs |-> 0, adds |-> 0]
  /\ lastReg = NoReg
  /\ lastAdd = NoAdd

\* A resolver registers a path that exists: files[p] = false.
Register ==
  /\ cphase = "resolving"
  /\ ncalls.regs < MaxRegs
  /\ \E p \in DOMAIN cfs :
       /\ cFiles' = Put(cFiles, p, FALSE)
       /\ lastReg' = [path |-> p, wasMember |-> p \in DOMAIN cFiles,
                      before |-> cFiles, after |-> Put(cFiles, p, FALSE)]
  /\ ncalls' = [ncalls EXCEPT !.regs = @ + 1]
  /\ UNCHANGED <<cphase, cfs, cDirs, stream, dirsTodo, filesTodo, lastAdd>>
  /\ UNCHANGED notCpioVars

\* What a call of AddFile leaves behind.
AfterAddFile(file, dest, wdOk) ==
  LET a == AddFile(TheArchive, cfs, file, dest, wdOk) IN
  /\ cFiles' = a.Files
  /\ cDirs' = a.Dirs
  /\ stream' = a.stream
  /\ cphase' = IF a.err THEN "failed" ELSE cphase
  /\ lastAdd' = [src |-> file, dest |-> dest, ret |-> IF a.err THEN "err" ELSE "nil",
                 pre |-> Len(stream), was |-> Materialized(cFiles, file)]

\* generateInitfs calls AddFile(src, dest); an error ends the build.  The
\* resolvers have all returned by then: nothing is registered any more.
AddFileCall ==
  /\ cphase = "resolving"
  /\ ncalls.adds < MaxAdds
  /\ \E args \in AddArgs, wdOk \in BOOLEAN : AfterAddFile(args[1], args[2], wdOk)
  /\ ncalls' = [regs |-> MaxRegs, adds |-> ncalls.adds + 1]
  /\ UNCHANGED <<cfs, dirsTodo, filesTodo, lastReg>>
  /\ UNCHANGED notCpioVars

\* Write calls writeCpio: the two range loops take the keys there are.  A key
\* that is true already stays true, and its turn does nothing (addDir returns
\* at once, `if imported { continue }`): those turns are left out.
StartWriteCpio ==
  /\ cphase = "resolving"
  /\ cphase' = "writing"
  /\ dirsTodo' = {d \in DOMAIN cDirs : ~cDirs[d]}
  /\ filesTodo' = {f \in DOMAIN cFiles : ~cFiles[f]}
  /\ UNCHANGED <<cfs, cFiles, cDirs, stream, ncalls, lastReg, lastAdd>>
  /\ UNCHANGED notCpioVars

\* One turn of `for dir := range archive.Dirs`, in any order.
WriteCpioDir ==
  /\ cphase = "writing"
  /\ \E dir \in dirsTodo :
       /\ dirsTodo' = dirsTodo \ {dir}
       /\ cDirs' = addDir(TheArchive, dir).Dirs
       /\ stream' = addDir(TheArchive, dir).stream
  /\ UNCHANGED <<cphase, cfs, cFiles, filesTodo, ncalls, lastReg, lastAdd>>
  /\ UNCHANGED notCpioVars

\* One turn of `for file, imported := range archive.Files`, in any order.
WriteCpioFile ==
  /\ cphase = "writing"
  /\ dirsTodo = {}
  /\ \E file \in filesTodo :
       /\ filesTodo' = filesTodo \ {file}
       /\ IF cFiles[file]
            THEN UNCHANGED <<cphase, cFiles, cDirs, stream, lastAdd>>
            ELSE \E wdOk \in BOOLEAN : AfterAddFile(file, file, wdOk)
  /\ UNCHANGED <<cfs, dirsTodo, ncalls, lastReg>>
  /\ UNCHANGED notCpioVars

\* writeCpio returns nil.
FinishCpio ==
  /\ cphase = "writing"
  /\ dirsTodo = {}
  /\ filesTodo = {}
  /\ cphase' = "written"
  /\ UNCHANGED <<cfs, cFiles, cDirs, stream, dirsTodo, filesTodo, ncalls, lastReg,
                 lastAdd>>
  /\ UNCHANGED notCpioVars

NextCpio ==
  \/ Register
  \/ AddFileCall
  \/ StartWriteCpio
  \/ WriteCpioDir
  \/ WriteCpioFile
  \/ FinishCpio

-----------------------------------------------------------------------------
(* ==========================  main / bootDeploy  ======================== *)

\* The kernels filepath.Glob(outDir/vmlinuz*) can find, in its sorted order.
Kernels == <<"vmlinuz", "vmlinuz-dtb", "vmlinuz-mtk">>
\* strings.HasSuffix(f, "-dtb") || strings.HasSuffix(f, "-mtk")
HasBootDeploySuffix(f) == f \in {"vmlinuz-dtb", "vmlinuz-mtk"}

\* kernFile: the first kernel found that has no such suffix, "" if none.
kernFile(found) ==
  LET plain == {k \in DOMAIN Kernels : Kernels[k] \in found
                                        /\ ~HasBootDeploySuffix(Kernels[k])}
  IN  IF plain = {} THEN "" ELSE Kernels[Min(plain)]

NoWorkDir == [dir |-> FALSE, initramfs |-> FALSE, extra |-> FALSE, vmlinuz |-> FALSE]

\* `if err != nil { log.Fatal(...) }` after a step: the process goes on after
\* nil only; an exit inside the step (log.Fatal, a panic) ends it as well.
AfterStep_IgnoreError(out) == IF out = "exit" THEN "fatal" ELSE "running"
AfterStep(out) == IF out = "nil" THEN "running" ELSE "fatal"

\* A step of main named `step` has run with outcome out: what follows, next
\* being the position after a success.
Step(step, out, next) ==
  /\ mtrace' = Append(mtrace, step)
  /\ mret' = AfterStep(out)
  /\ mpc' = IF AfterStep(out) = "running" THEN next ELSE "exited"
  /\ mfail' = IF out # "nil" /\ mfail = "" THEN step ELSE mfail

InitMain ==
  /\ mpc = "start"
  /\ mret = "running"
  /\ menv \in [deviceinfo : BOOLEAN, kernels : SUBSET {"vmlinuz", "vmlinuz-dtb", "vmlinuz-mtk"},
               bootDeploy : BOOLEAN]
  /\ mwork = NoWorkDir
  /\ mtrace = <<>>
  /\ mfail = ""

\* if !exists(deviceinfoFile) { return }: nothing is built, the process ends
\* normally.
CheckDeviceinfo ==
  /\ mpc = "start"
  /\ mret = "running"
  /\ IF menv.deviceinfo
       THEN mpc' = "read" /\ mret' = "running"
       ELSE mpc' = "exited" /\ mret' = "ok"
  /\ UNCHANGED <<menv, mwork, mtrace, mfail>>
  /\ UNCHANGED notMainVars

\* deviceinfo.ReadDeviceinfo
ReadDeviceinfo ==
  /\ mpc = "read"
  /\ mret = "running"
  /\ \E out \in {"nil", "err"} : Step("ReadDeviceinfo", out, "kernver")
  /\ UNCHANGED <<menv, mwork>>
  /\ UNCHANGED notMainVars

\* getKernelVersion
GetKernelVersion ==
  /\ mpc = "kernver"
  /\ mret = "running"
  /\ \E out \in {"nil", "err"} : Step("getKernelVersion", out, "workdir")
  /\ UNCHANGED <<menv, mwork>>
  /\ UNCHANGED notMainVars

\* ioutil.TempDir("", "mkinitfs")
MakeWorkDir ==
  /\ mpc = "workdir"
  /\ mret = "running"
  /\ \E out \in {"nil", "err"} :
       /\ Step("TempDir", out, "initfs")
       /\ mwork' = [mwork EXCEPT !.dir = (out = "nil")]
  /\ UNCHANGED menv
  /\ UNCHANGED notMainVars

\* generateInitfs("initramfs", workDir, ...): nil with the archive committed
\* to workDir; an error, the archive there or not (Write can fail after its
\* rename); or the process ends inside it.
GenerateInitfs ==
  /\ mpc = "initfs"
  /\ mret = "running"
  /\ \E out \in {"nil", "err", "exit"}, there \in BOOLEAN :
       /\ out = "nil" => there
       /\ Step("generateInitfs", out, "extra")
       /\ mwork' = [mwork EXCEPT !.initramfs = there]
  /\ UNCHANGED menv
  /\ UNCHANGED notMainVars

\* generateInitfsExtra("initramfs-extra", workDir, devinfo)
GenerateInitfsExtra ==
  /\ mpc = "extra"
  /\ mret = "running"
  /\ \E out \in {"nil", "err", "exit"}, there \in BOOLEAN :
       /\ out = "nil" => there
       /\ Step("generateInitfsExtra", out, "deploy")
       /\ mwork' = [mwork EXCEPT !.extra = there]
  /\ UNCHANGED menv
  /\ UNCHANGED notMainVars

\* bootDeploy(workDir, outDir): no kernel, no kernel without a suffix (os.Open
\* of "" fails), a failed open, create or copy, and a missing boot-deploy
\* command are errors; then the command runs, once.
BootDeploy ==
  /\ mpc = "deploy"
  /\ mret = "running"
  /\ \E io \in {"nil", "err"}, run \in {"nil", "err"} :
       LET prepared == menv.kernels # {} /\ kernFile(menv.kernels) # "" /\ io = "nil"
           invoked == prepared /\ menv.bootDeploy
           out == IF invoked THEN run ELSE "err"
       IN  /\ mtrace' = IF invoked THEN mtrace \o <<"bootDeploy", "boot-deploy">>
                                   ELSE Append(mtrace, "bootDeploy")
           /\ mret' = AfterStep(out)
           /\ mpc' = IF AfterStep(out) = "running" THEN "return" ELSE "exited"
           /\ mfail' = IF out # "nil" /\ mfail = "" THEN "bootDeploy" ELSE mfail
           /\ mwork' = [mwork EXCEPT !.vmlinuz = prepared]
  /\ UNCHANGED menv
  /\ UNCHANGED notMainVars

\* main returns: the deferred os.RemoveAll(workDir) runs.
ReturnFromMain ==
  /\ mpc = "return"
  /\ mret = "running"
  /\ mpc' = "exited"
  /\ mret' = "ok"
  /\ mwork' = NoWorkDir
  /\ UNCHANGED <<menv, mtrace, mfail>>
  /\ UNCHANGED notMainVars

NextMain ==
  \/ CheckDeviceinfo
  \/ ReadDeviceinfo
  \/ GetKernelVersion
  \/ MakeWorkDir
  \/ GenerateInitfs
  \/ GenerateInitfsExtra
  \/ BootDeploy
  \/ ReturnFromMain

-----------------------------------------------------------------------------
(* unmarshal / nameToField (pkgs/deviceinfo/deviceinfo.go) *)

\* A line is a sequence of tokens. A token is one character ('#', '=', '"',
\* ' ', '_', a digit) or a run of lower-case letters; a struct field name is a
\* sequence of tokens too, its words spelled as the struct spells them.

\* The lower-case words the keys are made of, and strings.Title's upper-casing
\* of the first letter of a word; what does not start with a letter is kept.
Capitalized(tok) ==
  CASE tok = "deviceinfo" -> "Deviceinfo"
    [] tok = "dtb" -> "Dtb"
    [] tok = "modules" -> "Modules"
    [] tok = "initfs" -> "Initfs"
    [] tok = "bootimg" -> "Bootimg"
    [] tok = "append" -> "Append"
    [] tok = "seandroidenforce" -> "Seandroidenforce"
    [] tok = "codename" -> "Codename"
    [] tok = "format" -> "Format"
    [] tok = "version" -> "Version"
    [] OTHER -> tok

\* The fields of DeviceInfo the model keeps: two plain ones and the one whose
\* spelling has capitals inside a word.
FieldDtb == <<"Dtb">>
FieldModulesInitfs == <<"Modules", "Initfs">>
FieldBootimgAppendSEAndroidEnforce == <<"Bootimg", "Append", "SEAndroidEnforce">>
DeviceInfoFields ==
  {FieldDtb, FieldModulesInitfs, FieldBootimgAppendSEAndroidEnforce}

\* var deviceinfo DeviceInfo: every field the empty string.
ZeroDeviceInfo == [f \in DeviceInfoFields |-> <<>>]

\* strings.Index: the position of the first sep in s, 0 when there is none.
Index(s, sep) ==
  IF \E i \in DOMAIN s : s[i] = sep
    THEN Min({i \in DOMAIN s : s[i] = sep})
    ELSE 0

HasPrefix(s, tok) == Len(s) > 0 /\ s[1] = tok
Contains(s, tok) == Index(s, tok) # 0

\* strings.SplitN(s, sep, 2): s itself when sep does not occur, else what
\* precedes the first sep and everything that follows it.
SplitN(s, sep) ==
  IF Index(s, sep) = 0
    THEN <<s>>
    ELSE <<SubSeq(s, 1, Index(s, sep) - 1), SubSeq(s, Index(s, sep) + 1, Len(s))>>

\* strings.Split(s, sep): one part more than there are separators.
RECURSIVE Split(_, _)
Split(s, sep) ==
  IF Index(s, sep) = 0
    THEN <<s>>
    ELSE <<SubSeq(s, 1, Index(s, sep) - 1)>>
           \o Split(SubSeq(s, Index(s, sep) + 1, Len(s)), sep)

\* strings.TrimSpace: leading and trailing white space removed.
TrimSpace(s) ==
  IF \A i \in DOMAIN s : s[i] \in WhiteSpace
    THEN <<>>
    ELSE SubSeq(s, Min({i \in DOMAIN s : s[i] \notin WhiteSpace}),
                   Max({i \in DOMAIN s : s[i] \notin WhiteSpace}))

\* strings.ReplaceAll(s, tok, "")
ReplaceAll(s, tok) == SelectSeq(s, LAMBDA c : c # tok)

\* strings.Title: the first letter of every word in upper case; a word starts
\* at the start of the string and after a character that is not a letter, a
\* digit or an underscore.
IsSeparator(tok) == tok \in {" ", "\t", "\"", "#", "="}
Title(p) ==
  [i \in 1..Len(p) |->
     IF i = 1 \/ IsSeparator(p[i - 1]) THEN Capitalized(p[i]) ELSE p[i]]

\* nameToField's loop over the parts, from part i on.
RECURSIVE TitledParts(_, _)
TitledParts(parts, i) ==
  IF i > Len(parts) THEN <<>>
  ELSE IF parts[i] = <<"deviceinfo">> THEN TitledParts(parts, i + 1)
  ELSE Title(parts[i]) \o TitledParts(parts, i + 1)

nameToField(name) == TitledParts(Split(name, "_"), 1)

\* reflect.ValueOf(devinfo).Elem().FieldByName(fieldName).IsValid()
FieldByName(fieldName) == fieldName \in DeviceInfoFields

FormatVersionKey == <<"deviceinfo", "_", "format", "_", "version">>

\* One iteration of unmarshal's loop on `line`: the struct it leaves and the
\* error it returns with, "" when the loop goes on.
Continue(d) == [devinfo |-> d, err |-> ""]
Fail(d, err) == [devinfo |-> d, err |-> err]
unmarshalLine(d, line) ==
  IF HasPrefix(line, "#") THEN Continue(d)
  ELSE IF ~Contains(line, "=") THEN Continue(d)
  ELSE
    LET stripped == TrimSpace(SplitN(line, "#")[1])
        parts == SplitN(stripped, "=")
    IN IF Len(parts) # 2 THEN Fail(d, "err:invalid format")
       ELSE
         LET name == parts[1]
             val == ReplaceAll(parts[2], "\"")
             fieldName == nameToField(name)
         IN IF name = FormatVersionKey /\ val # <<"0">>
              THEN Fail(d, "err:format version not supported")
            ELSE IF fieldName = <<>> THEN Fail(d, "err:invalid format")
            ELSE IF ~FieldByName(fieldName) THEN Continue(d)
            ELSE Continue([d EXCEPT ![fieldName] = val])

\* The inputs. Keys: those of the three fields, two keys of options this
\* program does not use, and names that are short of a key.
KeyDtb == <<"deviceinfo", "_", "dtb">>
KeyModulesInitfs == <<"deviceinfo", "_", "modules", "_", "initfs">>
KeyBootimgAppendSEAndroidEnforce ==
  <<"deviceinfo", "_", "bootimg", "_", "append", "_", "seandroidenforce">>
KeyCodename == <<"deviceinfo", "_", "codename">>
Keys ==
  {KeyDtb, KeyModulesInitfs, KeyBootimgAppendSEAndroidEnforce, KeyCodename,
   FormatVersionKey, <<"dtb">>, <<"deviceinfo">>, <<>>, KeyDtb \o <<" ">>}

\* Values: up to MaxValue characters, bare or between double quotes.
ValueChars == {"0", "1", "=", " ", "#"}
RawValues == UNION {[1..n -> ValueChars] : n \in 0..MaxValue}
Values == RawValues \cup {<<"\"">> \o v \o <<"\"">> : v \in RawValues}

Leads == {<<>>, <<" ">>}
Tails == {<<>>, <<" ", "#", "1">>}
Assignments ==
  {lead \o key \o <<"=">> \o val \o tail :
     lead \in Leads, key \in Keys, val \in Values, tail \in Tails}

\* Lines that assign nothing: blank ones, comments (also indented, also of a
\* commented-out assignment) and text without '='.
Comments ==
  {lead \o <<"#">> \o rest :
     lead \in Leads,
     rest \in {<<>>, <<" ", "1">>, <<" ">> \o KeyDtb \o <<"=", "1">>}}
OtherLines == {<<>>, <<" ">>, <<" ", "\t">>, <<"1">>, KeyDtb, <<"=">>}
Lines == Assignments \cup Comments \cup OtherLines

\* What the reader holds before the line under study: nothing, or a line that
\* has set a field.
Preambles == {<<>>, <<KeyDtb \o <<"=", "\"", "1", "\"">>>>}

NoLine == [seen |-> FALSE, line |-> <<>>, before |-> ZeroDeviceInfo,
           after |-> ZeroDeviceInfo, err |-> ""]

\* ReadDeviceinfo: unmarshal(fd, &deviceinfo) on a zero DeviceInfo.
InitInfo ==
  /\ reader \in {pre \o <<line>> : pre \in Preambles, line \in Lines}
  /\ devinfo = ZeroDeviceInfo
  /\ lastLine = NoLine
  /\ infoRet = "running"

\* s.Scan() gives a line: one iteration of the loop, to its `continue`, to
\* its field.SetString or to its `return`.
ScanLine ==
  /\ infoRet = "running"
  /\ reader # <<>>
  /\ LET r == unmarshalLine(devinfo, Head(reader)) IN
       /\ devinfo' = r.devinfo
       /\ lastLine' = [seen |-> TRUE, line |-> Head(reader), before |-> devinfo,
                       after |-> r.devinfo, err |-> r.err]
       /\ infoRet' = IF r.err = "" THEN "running" ELSE r.err
  /\ reader' = Tail(reader)
  /\ UNCHANGED notInfoVars

\* s.Scan() is false at the end of the input, s.Err() is nil: return nil.
EndOfInput ==
  /\ infoRet = "running"
  /\ reader = <<>>
  /\ infoRet' = "nil"
  /\ UNCHANGED <<reader, devinfo, lastLine>>
  /\ UNCHANGED notInfoVars

\* s.Scan() is false because the read failed or the line is longer than the
\* scanner's buffer: s.Err() is returned, the lines left are not read.
ScanError ==
  /\ infoRet = "running"
  /\ reader # <<>>
  /\ infoRet' = "err:scan"
  /\ UNCHANGED <<reader, devinfo, lastLine>>
  /\ UNCHANGED notInfoVars

NextInfo ==
  \/ ScanLine
  \/ EndOfInput
  \/ ScanError

-----------------------------------------------------------------------------
(* Specifications *)

IdleWrite ==
  /\ wpc = "idle"
  /\ writeRet = "running"
  /\ archiveSize = 0
  /\ actualFreeSpace = 0
  /\ target = [content |-> NoFile, mode |-> NoFile]
  /\ targetBefore = target
  /\ tmpOutDir = FALSE
  /\ tmpOutFile = NoFile
  /\ extractDir = FALSE
  /\ tmpTargetFile = NoFile
  /\ tmpFileChecksum = ""
  /\ targetFileChecksum = ""
  /\ deferred = <<>>
  /\ trace = <<>>

IdleElf ==
  /\ fs = [p \in {} |-> Missing]
  /\ cwd = "/"
  /\ newFiles = {}
  /\ required = FALSE
  /\ pending = {}
  /\ files = EmptySet
  /\ stack = <<>>
  /\ walks = [p \in AllPaths |-> 0]
  /\ lastCall = NoCall
  /\ elfRet = "idle"

IdleDeps ==
  /\ modName = <<>>
  /\ depsRet = [deps |-> <<>>, err |-> FALSE, called |-> FALSE]

IdleDb ==
  /\ modulesDep = <<>>
  /\ scanFail = 0

IdleMod ==
  /\ modDepFile = "ok"
  /\ modDisk = {}
  /\ modPending = <<>>
  /\ modLog = <<>>
  /\ modRet = "idle"

IdleMain ==
  /\ mpc = "idle"
  /\ mret = "running"
  /\ menv = [deviceinfo |-> FALSE, kernels |-> {}, bootDeploy |-> FALSE]
  /\ mwork = NoWorkDir
  /\ mtrace = <<>>
  /\ mfail = ""

IdleCpio ==
  /\ cphase = "idle"
  /\ cfs = [p \in {} |-> Missing]
  /\ cFiles = EmptySet
  /\ cDirs = EmptySet
  /\ stream = <<>>
  /\ dirsTodo = {}
  /\ filesTodo = {}
  /\ ncalls = 0
  /\ lastReg = NoReg
  /\ lastAdd = NoAdd

IdleInfo ==
  /\ reader = <<>>
  /\ devinfo = ZeroDeviceInfo
  /\ lastLine = NoLine
  /\ infoRet = "idle"

InitW == InitWrite /\ IdleElf /\ IdleDeps /\ IdleDb /\ IdleMod /\ IdleCpio /\ IdleMain /\ IdleInfo
SpecWrite == InitW /\ [][NextWrite]_vars

InitE == InitElf /\ IdleWrite /\ IdleDeps /\ IdleDb /\ IdleMod /\ IdleCpio /\ IdleMain /\ IdleInfo
SpecElf == InitE /\ [][NextElf]_vars

\* getModuleDeps alone, over the queries and the databases.
InitD == InitDeps /\ IdleWrite /\ IdleElf /\ IdleMod /\ IdleCpio /\ IdleMain /\ IdleInfo
SpecDeps == InitD /\ [][NextDeps]_vars

\* The module loop; `files` starts empty as in IdleElf.
InitM == InitMod /\ IdleWrite /\ IdleDeps /\ IdleCpio /\ IdleMain /\ IdleInfo
           /\ fs = [p \in {} |-> Missing] /\ cwd = "/" /\ newFiles = {}
           /\ required = FALSE /\ pending = {} /\ stack = <<>>
           /\ walks = [p \in AllPaths |-> 0] /\ lastCall = NoCall /\ elfRet = "idle"
SpecMod == InitM /\ [][NextMod]_vars

\* The archive builder: the resolvers register, generateInitfs adds, writeCpio
\* finishes.
InitC == InitCpio /\ IdleWrite /\ IdleElf /\ IdleDeps /\ IdleDb /\ IdleMod /\ IdleMain /\ IdleInfo
SpecCpio == InitC /\ [][NextCpio]_vars

\* main from its first line to the end of the process.
InitP == InitMain /\ IdleWrite /\ IdleElf /\ IdleDeps /\ IdleDb /\ IdleMod /\ IdleCpio /\ IdleInfo
SpecMain == InitP /\ [][NextMain]_vars

\* unmarshal over one reader, from its first line to its return.
InitI == InitInfo /\ IdleWrite /\ IdleElf /\ IdleDeps /\ IdleDb /\ IdleMod /\ IdleCpio
           /\ IdleMain
SpecInfo == InitI /\ [][NextInfo]_vars

-----------------------------------------------------------------------------
(* Claims about Archive.Write, checked under SpecWrite *)

Renamed == "renamed" \in Range(trace)
WriteFailed == wpc = "returned" /\ writeRet # "nil"

\* The steps that precede the rename, in the order of the step comment of
\* Archive.Write.
StepsBeforeRename ==
  <<"built", "tmpdir", "staged", "summed", "spaceok", "extracted", "copied",
    "synced", "closed", "matched">>

\* C1: as long as the rename has not happened, and so in every run in which a
\* step before the rename fails, the file at `path` is what it was before the
\* call: same existence, same content (and mode).
C1_TargetUntouchedBeforeRename ==
  ~Renamed => target = targetBefore

\* C1 witness: Write failed after it had copied the archive into the
\* destination directory, with an archive already at `path`.
C1_Witness ==
  /\ WriteFailed
  /\ ~Renamed
  /\ "copied" \in Range(trace)
  /\ targetBefore.content = "old"

\* C2: the rename onto `path` happens at most once, and only after staging,
\* the staged checksum, the free-space gate, the extraction self-test, the
\* copy, its sync and close, and an equal checksum of the copy, in this order.
C2_RenameOnlyAfterVerification ==
  /\ Cardinality({i \in DOMAIN trace : trace[i] = "renamed"}) <= 1
  /\ \A i \in DOMAIN trace :
       trace[i] = "renamed" =>
         /\ SubSeq(trace, 1, i - 1) = StepsBeforeRename
         /\ tmpFileChecksum = checksum("new")
         /\ targetFileChecksum = tmpFileChecksum
         /\ archiveSize < UsableSpace(actualFreeSpace)

\* C2 witness: the rename has happened.
C2_Witness == Renamed /\ target.content = "new"

\* C3: whenever Write has returned, the staging directory and the extraction
\* subdirectory no longer exist.
C3_TempDirsRemovedOnReturn ==
  wpc = "returned" => (~tmpOutDir /\ ~extractDir)

\* C4: when the checksum of the temporary copy differs from the staged
\* checksum, Write returns an error, does not rename, removes the temporary
\* copy from the destination directory and leaves the file at `path` as it was.
C4_MismatchAbortsAndCleans ==
  ("closed" \in Range(trace) /\ wpc # "compare"
     /\ targetFileChecksum # tmpFileChecksum) =>
    /\ WriteFailed
    /\ ~Renamed
    /\ target = targetBefore
    /\ tmpTargetFile = NoFile

\* C5: when the staged file is larger than the free space of the destination
\* with 10% withheld, Write fails at the gate with the not-enough-space error
\* and never creates a file in the destination directory.
C5_SpaceGate ==
  archiveSize * 10 > actualFreeSpace * 9 =>
    /\ tmpTargetFile = NoFile
    /\ target = targetBefore
    /\ writeRet # "nil"
    /\ wpc \notin {"extractDir", "extract", "TempFile", "Open", "Copy", "Sync",
                   "Close", "compare", "Rename", "Chmod"}
    /\ ("summed" \in Range(trace) /\ wpc = "returned" /\ writeRet # "panic")
         => writeRet = "err:NotEnoughSpace"

\* C5 witness: the gate refused an archive larger than the usable space, with
\* some space free.
C5_Witness ==
  /\ archiveSize * 10 > actualFreeSpace * 9
  /\ actualFreeSpace > 0
  /\ writeRet = "err:NotEnoughSpace"

\* C22: Write reports the commit faithfully. When Write has returned an
\* error, the file at `path` is the one that was there before the call; when
\* the new archive has been renamed onto `path`, Write has returned nil and
\* the file carries the mode the caller passed.
C22_WriteReportsCommit ==
  wpc = "returned" =>
    /\ (writeRet # "nil" => target = targetBefore)
    /\ (Renamed => (writeRet = "nil" /\ target.mode = Mode))

-----------------------------------------------------------------------------
(* Claims about getFiles / getFile / getBinaryDeps, checked under SpecElf *)

\* C6: resolving the dependencies of one file terminates whatever the import
\* graph (cycles, diamonds), and walks no path a second time: getBinaryDeps is
\* entered at most once per path and the recursion never exhausts the stack.
C6_NoRewalkAndTerminates ==
  Cardinality(newFiles) = 1 =>
    /\ \A p \in AllPaths : walks[p] <= 1
    /\ elfRet # "overflow"

\* C7: getFile on a path that does not exist leaves `files` as it was and
\* returns nil when required is false, an error when required is true;
\* getFiles returns that error and does nothing after it.
C7_MissingFile ==
  /\ []((lastCall.ret # "none" /\ ~lastCall.existed) =>
          /\ lastCall.after = lastCall.before
          /\ lastCall.ret = IF required THEN "err" ELSE "nil")
  /\ []((lastCall.ret = "err" /\ ~lastCall.existed) =>
          /\ elfRet = "err"
          /\ files = lastCall.before)
  /\ [][elfRet = "err" => UNCHANGED vars]_vars

\* C7 witness: a required file is missing, getFiles has returned the error
\* with a member of newFiles not reached.
C7_Witness ==
  /\ lastCall.ret = "err"
  /\ ~lastCall.existed
  /\ required
  /\ elfRet = "err"
  /\ pending # {}

-----------------------------------------------------------------------------
(* Claims about getModule and getModuleDeps *)

\* What getModuleDeps would return for modName alone, whatever the files on
\* disk are.
Resolved(name) == getModuleDeps(name, modulesDep, scanFail)

\* The call i of the log matched a line of modules.dep and a path of that line
\* is not on disk.
ListedPathMissing(i) ==
  /\ modDepFile = "ok"
  /\ ~Resolved(modLog[i].name).err
  /\ \E j \in DOMAIN Resolved(modLog[i].name).deps :
       Join(ModDir, Resolved(modLog[i].name).deps[j]) \notin modDisk

\* C8: when a module name matches a line of modules.dep and a path of that
\* line, joined to the module directory, is not on disk, getModule returns a
\* non-nil error and the module resolution as a whole fails.
C8_MissingModulePathFails ==
  \A i \in DOMAIN modLog :
    ListedPathMissing(i) => modLog[i].ret = "err" /\ modRet = "err"

\* A name with every run of separators written as one '_'.
RECURSIVE SepNorm(_)
SepNorm(name) ==
  IF name = <<>> THEN <<>>
  ELSE IF Head(name) \in Separators
    THEN LET rest == SepNorm(Tail(name)) IN
         IF rest # <<>> /\ Head(rest) = "_" THEN rest ELSE <<"_">> \o rest
    ELSE <<Head(name)>> \o SepNorm(Tail(name))

\* The queries that differ from q only in their separators.
SepClass == [q \in Queries |-> {q2 \in Queries : SepNorm(q2) = SepNorm(q)}]

\* A module name proper: no directory and no extension.
IsModuleName(name) == \A i \in DOMAIN name : name[i] \notin {".", "/"}

\* The lines the scanner delivers before it fails.
Readable == 1..(IF scanFail = 0 THEN Len(modulesDep) ELSE scanFail - 1)

\* The lines whose canonical name is `name` up to separators.
EntriesFor(name) ==
  {k \in DOMAIN modulesDep :
     /\ Fields(modulesDep[k]) # <<>>
     /\ SepNorm(CanonicalName(modulesDep[k])) = SepNorm(name)}

\* C9: two module names that differ only in their separators get the same
\* result from getModuleDeps against the same database; an entry whose
\* canonical name is the query with other separators is matched, and the
\* result is that line's paths in order, the module's own path first without
\* its ':', then its dependencies.
C9_SeparatorsDoNotMatter ==
  depsRet.called =>
    /\ \A q \in SepClass[modName] :
         /\ Resolved(q).deps = depsRet.deps
         /\ Resolved(q).err = depsRet.err
    /\ (IsModuleName(modName) /\ EntriesFor(modName) \cap Readable # {}) =>
         /\ ~depsRet.err
         /\ depsRet.deps = LineFields(modulesDep[Min(EntriesFor(modName) \cap Readable)])

\* "a-a" asked of "k/a_a.k: k/c.k" gives <<"k/a_a.k", "k/c.k">>.
C9_Witness ==
  /\ depsRet.called
  /\ modName = <<"a", "-", "a">>
  /\ modulesDep = <<LineAA, LineC>>
  /\ scanFail = 0
  /\ depsRet.deps = << <<"k","/","a","_","a",".","k">>, <<"k","/","c",".","k">> >>
  /\ Cardinality(SepClass[modName]) > 1

\* The query as the specification canonicalises it: the base name, cut at its
\* first '.'.
BareName(name) == stripExts(Base(name))

\* C10 (as stated): the matcher is built from the base name of the query with
\* every '.'-suffix stripped, so a query given as a file name or a path gets
\* the result of the bare module name.
C10_QueryIsCanonicalised ==
  depsRet.called =>
    /\ depsRet.deps = Resolved(BareName(modName)).deps
    /\ depsRet.err = Resolved(BareName(modName)).err

\* A query with a directory in front or with an extension: it holds a '/', or
\* a '.' with a letter or a digit somewhere after it.
HasAffix(name) ==
  \E i \in DOMAIN name :
    \/ name[i] = "/"
    \/ /\ name[i] = "."
       /\ \E j \in (i + 1)..Len(name) : name[j] \notin Separators \cup {".", "/"}

\* C10 (amended): the matcher is built from the query as given; only the
\* path of the database line is reduced to its canonical name.  A query with
\* a directory or an extension therefore does not match the entry of its bare
\* module name: the result is never that entry's line.
C10_QueryIsUsedAsGiven ==
  (depsRet.called /\ HasAffix(modName)) =>
    \A k \in EntriesFor(BareName(modName)) :
      depsRet.deps # LineFields(modulesDep[k])

\* "a_a.k" asked of "k/a_a.k: k/c.k" finds nothing, "a_a" finds the line.
C10_Witness ==
  /\ depsRet.called
  /\ modName = <<"a", "_", "a", ".", "k">>
  /\ modulesDep = <<LineAA, LineC>>
  /\ scanFail = 0
  /\ 1 \in EntriesFor(BareName(modName))
  /\ depsRet.deps = <<>>
  /\ ~depsRet.err
  /\ Resolved(BareName(modName)).deps = LineFields(LineAA)

\* C11: a module name that matches no line of the module database (the
\* database being there and read to its end) gets an empty list and no error
\* from getModuleDeps; getModule returns no error and leaves the path set as
\* it was, and the loop goes on to the remaining modules.
C11_UnknownModuleIsSkipped ==
  \A i \in DOMAIN modLog :
    (modDepFile = "ok" /\ scanFail = 0 /\ EntriesFor(modLog[i].name) = {}) =>
      /\ Resolved(modLog[i].name).deps = <<>>
      /\ ~Resolved(modLog[i].name).err
      /\ modLog[i].ret = "nil"
      /\ modLog[i].after = modLog[i].before
      /\ (i = Len(modLog) /\ modPending # <<>>) => modRet = "running"
      /\ (i = Len(modLog) /\ modPending = <<>>) => modRet = "nil"

\* "z" has no entry, and the module after it was resolved into the set.
C11_Witness ==
  /\ Len(modLog) = 2
  /\ modLog[1].name = <<"z">>
  /\ modLog[1].ret = "nil"
  /\ modulesDep # <<>>
  /\ scanFail = 0
  /\ modLog[2].after # modLog[2].before
  /\ modRet = "nil"

-----------------------------------------------------------------------------
(* Claims about the archive builder *)

\* C12: after any sequence of AddFile(src, dest) calls and writeCpio, no two
\* entries of the stream, directories, files or symlinks, have the same name.
C12_NoDuplicateNames ==
  \A i, j \in DOMAIN stream : i < j => stream[i].name # stream[j].name

\* The directories above a name: its proper prefixes, the top one first.
Ancestors(name) == {Rel(SubSeq(name.elems, 1, n)) : n \in 1..(Len(name.elems) - 1)}

\* C13: at every point of the construction, every entry of the stream, file,
\* symlink or directory, the targets added by symlink recursion included, has
\* a directory entry for each of its ancestors earlier in the stream.
C13_ParentsPrecedeChildren ==
  \A j \in DOMAIN stream :
    \A anc \in Ancestors(stream[j].name) :
      \E i \in 1..(j - 1) : stream[i].kind = "dir" /\ stream[i].name = anc

\* u, u/l and u/l/c in that order, the required directory u/t, and the
\* targets of the link /l/a: l/a after l, b/l and b/x after b.
C13_Witness ==
  /\ cphase = "written"
  /\ \E i, j, k \in DOMAIN stream :
       /\ i < j /\ j < k
       /\ stream[i] = DirEntry(Rel(<<"u">>))
       /\ stream[j] = DirEntry(Rel(<<"u", "l">>))
       /\ stream[k] = FileEntry(PULC, PULC)
  /\ \E j \in DOMAIN stream : stream[j].kind = "dir" /\ stream[j].name = Rel(<<"u", "t">>)
  /\ \E j \in DOMAIN stream : stream[j].kind = "link" /\ stream[j].src = PLA
  /\ \E j \in DOMAIN stream : stream[j].kind = "file" /\ stream[j].src = PBX

\* Where a link points, as the claim has it: an absolute target is itself, a
\* relative one is taken from the directory of the link.
PointsTo(link, tgt) ==
  IF tgt.abs THEN tgt ELSE Abs(CleanElems(<<>>, Dir(link).elems \o tgt.elems))

\* Every hop from `file` down has its entry: a symlink entry with the raw
\* target and its length for a link, a file entry for the regular file at the
\* end.
RECURSIVE HopsInArchive(_, _)
HopsInArchive(file, fuel) ==
  LET st == CLstat(cfs, file) IN
  IF st.kind = "link"
    THEN /\ fuel > 0
         /\ \E k \in DOMAIN stream :
              /\ stream[k].kind = "link"
              /\ stream[k].src = file
              /\ stream[k].link = st.target
              /\ stream[k].size = StrLen(st.target)
         /\ HopsInArchive(PointsTo(file, st.target), fuel - 1)
    ELSE /\ st.kind = "file"
         /\ \E k \in DOMAIN stream : stream[k].kind = "file" /\ stream[k].src = file

C15_AddIsIdempotent ==
  /\ lastReg.wasMember =>
       /\ DOMAIN lastReg.after = DOMAIN lastReg.before
       /\ Cardinality(DOMAIN lastReg.after) = Cardinality(DOMAIN lastReg.before)
       /\ \A p \in DOMAIN lastReg.after : lastReg.after[p] = lastReg.before[p]
  /\ \A i, j \in DOMAIN stream :
       (i < j /\ stream[i].src # NoSrc) => stream[i].src # stream[j].src

\* /b/x registered twice, written by AddFile under its own name, and left
\* alone by writeCpio.
C15_Witness ==
  /\ lastReg.wasMember
  /\ lastReg.path = PBX
  /\ cphase = "written"
  /\ \E k \in DOMAIN stream : stream[k].src = PBX
  /\ lastAdd.src = PBX
  /\ lastAdd.dest = PBX

-----------------------------------------------------------------------------
(* Further claims about getFile and getBinaryDeps *)

\* What a resolution that starts at p comes by: p, the target of a link and
\* what that leads to, the libraries of an ELF binary where the loop over
\* libdirs finds them and what they lead to.
RECURSIVE Visited(_, _)
Visited(p, fuel) ==
  LET node == Lstat(p) IN
  IF node.kind = "missing" \/ p = NoPath THEN {}
  ELSE IF fuel = 0 THEN {p}
  ELSE IF node.kind = "link" THEN {p} \cup Visited(LinkTarget(p), fuel - 1)
  ELSE IF node.kind = "elf"
    THEN {p} \cup UNION {Visited(FindLib(node.libs[i]), fuel - 1) : i \in DOMAIN node.libs}
  ELSE {p}

\* C16: after a successful getFile, every file and every symbolic link the
\* resolution came by is in the path set: the starting path, every link of a
\* chain, the final target whether an ELF binary or not, every library.
C16_VisitedAreRegistered ==
  (lastCall.ret = "nil" /\ lastCall.existed) =>
    Visited(lastCall.file, MaxDepth) \subseteq DOMAIN files

\* C17: RelativeSymlinkTargetToDir gives the target taken from the directory
\* of the link, whatever the working directory, and on every return path
\* leaves the working directory of the process as it was (the process starts
\* in "/" and nothing else changes it).
C17_WorkingDirectoryUntouched ==
  /\ \A i \in 1..(Len(stack) - 1) :
       stack[i].stage = "link" => stack[i + 1].file = LinkTarget(stack[i].file)
  /\ cwd = "/"

\* Some ELF binary imports a library that is in no libdir: the one other
\* reason for which getBinaryDeps ends the process.
SomeLibraryMissing ==
  \E p \in DOMAIN fs :
    /\ fs[p].kind = "elf"
    /\ \E i \in DOMAIN fs[p].libs : FindLib(fs[p].libs[i]) = NoPath

\* C18: a file reached during the resolution (a root file, the target of a
\* link, a file found for a library) that does not parse as ELF is opaque
\* data: it is registered, nothing is looked up for it, and the resolution
\* goes on without failing.
C18_NonElfIsOpaque ==
  /\ (elfRet = "fatal" => SomeLibraryMissing)
  /\ (lastCall.ret = "nil" /\ lastCall.existed) =>
       \A p \in Visited(lastCall.file, MaxDepth) :
         Lstat(p).kind = "file" => p \in DOMAIN files

-----------------------------------------------------------------------------
(* The canonical name of a module database line *)

\* C19: the name a line of the module database is matched under is the base
\* name of the line's module path with all its extension suffixes stripped,
\* for every module path, a path with a '.' in a directory included.
C19_CanonicalNameIsBaseName ==
  depsRet.called =>
    \A k \in DOMAIN modulesDep :
      Fields(modulesDep[k]) # <<>> =>
        CanonicalName(modulesDep[k]) = stripExts(Base(LineFields(modulesDep[k])[1]))

-----------------------------------------------------------------------------
(* The pipeline of main *)

Pipeline ==
  <<"ReadDeviceinfo", "getKernelVersion", "TempDir", "generateInitfs",
    "generateInitfsExtra", "bootDeploy", "boot-deploy">>

\* C20: every run is one sequential pipeline without retries: the initramfs
\* archive is generated and committed, then the initramfs-extra archive, then
\* the boot-deploy installer is invoked, at most once and only after both
\* archives were written; after the first failing step no later step is
\* begun, and the run ends in failure.
C20_SequentialPipeline ==
  /\ [](/\ Len(mtrace) <= Len(Pipeline)
        /\ mtrace = SubSeq(Pipeline, 1, Len(mtrace))
        /\ ("boot-deploy" \in Range(mtrace) =>
              /\ (mwork.initramfs /\ mwork.extra) \/ mret = "ok"
              /\ mfail \in {"", "bootDeploy"})
        /\ ("generateInitfsExtra" \in Range(mtrace) =>
              mfail \notin {"ReadDeviceinfo", "getKernelVersion", "TempDir",
                            "generateInitfs"})
        /\ (mfail # "" =>
              /\ mret = "fatal"
              /\ mfail = IF mtrace[Len(mtrace)] = "boot-deploy" THEN "bootDeploy"
                         ELSE mtrace[Len(mtrace)]))
  /\ [][mret # "running" => UNCHANGED vars]_vars

\* A run to the end: both archives, the installer, the normal exit.
C20_Witness ==
  /\ mret = "ok"
  /\ mtrace = Pipeline
  /\ mfail = ""


-----------------------------------------------------------------------------
(* Claims about unmarshal, checked under SpecInfo *)

\* A line that sets nothing: empty, white space only, or a comment, that is a
\* line whose first character that is not white space is '#'.
SetsNothing(line) ==
  TrimSpace(line) = <<>> \/ HasPrefix(TrimSpace(line), "#")

\* The parts of an assignment line: what precedes a trailing comment, without
\* the white space around it, is key=value.
Body(line) == TrimSpace(SplitN(line, "#")[1])
KeyOf(line) == SplitN(Body(line), "=")[1]
RawValueOf(line) == SplitN(Body(line), "=")[2]

IsIdentifier(key) ==
  key # <<>> /\ \A i \in DOMAIN key : ~IsSeparator(key[i])
IsBare(v) ==
  \A i \in DOMAIN v : v[i] \notin WhiteSpace \cup {"\""}
IsQuoted(v) ==
  /\ Len(v) >= 2
  /\ v[1] = "\""
  /\ v[Len(v)] = "\""
  /\ \A i \in 2..(Len(v) - 1) : v[i] # "\""

\* A well-formed assignment: an identifier, '=', a value that is bare or
\* between double quotes, and possibly a comment that white space separates
\* from the value. A '#' anywhere else makes the line none of these.
WellFormed(line) ==
  /\ ~SetsNothing(line)
  /\ Index(line, "#") # 0 => line[Index(line, "#") - 1] \in WhiteSpace
  /\ Contains(Body(line), "=")
  /\ IsIdentifier(KeyOf(line))
  /\ IsBare(RawValueOf(line)) \/ IsQuoted(RawValueOf(line))

\* The deviceinfo key of a field: deviceinfo_ and the words of the field in
\* lower case.
KeyOfField(f) ==
  CASE f = FieldDtb -> KeyDtb
    [] f = FieldModulesInitfs -> KeyModulesInitfs
    [] f = FieldBootimgAppendSEAndroidEnforce -> KeyBootimgAppendSEAndroidEnforce
KnownKeys == {KeyOfField(f) : f \in DeviceInfoFields}
FieldOfKey(key) == CHOOSE f \in DeviceInfoFields : KeyOfField(f) = key

\* The assignments unmarshal refuses on purpose: a name with no word but
\* "deviceinfo", and a format version other than 0. The claim is read as not
\* being about them.
Refused(line) ==
  \/ nameToField(KeyOf(line)) = <<>>
  \/ /\ KeyOf(line) = FormatVersionKey
     /\ ReplaceAll(RawValueOf(line), "\"") # <<"0">>

AssignsKnown(line) == WellFormed(line) /\ KeyOf(line) \in KnownKeys
AssignsUnknown(line) ==
  /\ WellFormed(line)
  /\ KeyOf(line) \notin KnownKeys
  /\ nameToField(KeyOf(line)) \notin DeviceInfoFields
  /\ ~Refused(line)

\* C21: a line that sets nothing, and a well-formed assignment to a key that
\* is not a DeviceInfo field, give no error and leave every field as it was;
\* a well-formed assignment to the key of a field gives no error and makes
\* that field everything after the first '=', without the double quotes and
\* without the trailing comment, the other fields as they were.
C21_UnmarshalLine ==
  lastLine.seen =>
    /\ (SetsNothing(lastLine.line) \/ AssignsUnknown(lastLine.line)) =>
         (lastLine.err = "" /\ lastLine.after = lastLine.before)
    /\ AssignsKnown(lastLine.line) =>
         /\ lastLine.err = ""
         /\ lastLine.after =
              [lastLine.before EXCEPT ![FieldOfKey(KeyOf(lastLine.line))] =
                 ReplaceAll(RawValueOf(lastLine.line), "\"")]

=============================================================================
